---- MODULE Spec2Model ----
(***************************************************************************)
(* Model of mirror_mygithub (the paginating version of the program):       *)
(* main, fetchApiContent, parseRepo, doExec and syncRepos.                 *)
(*                                                                         *)
(* Strings the code splits and slices (the Link header) are sequences of   *)
(* tokens: "<", ">", ";", ",", " ", "rel=", a relation name, or the URL of *)
(* a page.  Paths are records [abs, segs].                                 *)
(***************************************************************************)
EXTENDS Integers, Sequences, FiniteSets, TLC

VARIABLES
    pc,         \* position of the single thread of control
    exit,       \* how the process ended: "none", "return", "finished", "fatal", "panic"
    cfg,        \* the loaded configuration (User, Token, RepoRootDir)
    dirs,       \* the filesystem: the set of existing directories (absolute paths)
    wc,         \* the filesystem: the directories that hold a git working copy
    cwd,        \* the process's current working directory (absolute path)
    cat,        \* which syncRepos call of main is running: 1 (owned), 2 (starred), 0 (none)
    api,        \* fetchApiContent: the URL of the next request
    reps,       \* fetchApiContent: the accumulator
    rsp,        \* fetchApiContent: the last response received
    requests,   \* fetchApiContent: GET requests performed by this call
    sleeps,     \* fetchApiContent: courtesy sleeps performed by this call
    served,     \* the page bodies the server has handed out to this call
    todo,       \* syncRepos: the records the range loop has still to visit
    cur,        \* syncRepos: the record being reconciled and what was done for it
    run,        \* doExec: the running call (command, attempts, pauses, last outcome)
    hist        \* what the run has done so far, per category

vars == <<pc, exit, cfg, dirs, wc, cwd, cat, api, reps, rsp, requests, sleeps,
          served, todo, cur, run, hist>>

----------------------------------------------------------------------------
(* Bounds of the model *)

\* The server's listings have at most MaxPages pages.
MaxPages == 3

\* A listing carries at most MaxRecords records over all its pages.
MaxRecords == 2

\* How many times the program is run, one run after the other.
MaxRuns == 2

----------------------------------------------------------------------------
(* Sequences of tokens: the string operations the code uses *)

\* A token of a string: a piece of text, or the URL of page u of a listing.
Tok(c) == [c |-> c, u |-> 0]

Url(u) == [c |-> "url", u |-> u]

\* The index of the first occurrence of token sep in s, 0 when there is none.
RECURSIVE IndexFrom(_, _, _)
IndexFrom(s, sep, k) ==
    IF k > Len(s) THEN 0
    ELSE IF s[k] = sep THEN k
    ELSE IndexFrom(s, sep, k + 1)

\* strings.Split(s, sep): the pieces of s between the separators; Split of the
\* empty string is one empty piece.
RECURSIVE Split(_, _)
Split(s, sep) ==
    LET k == IndexFrom(s, sep, 1)
    IN IF k = 0 THEN <<s>>
       ELSE <<SubSeq(s, 1, k - 1)>> \o Split(SubSeq(s, k + 1, Len(s)), sep)

\* strings.Contains(s, "next") on a tokenised string.
ContainsNext(s) == \E k \in 1..Len(s) : s[k] = Tok("next")

\* s[1 : len(s)-1] is in bounds exactly when len(s) >= 2.
SliceOK(s) == Len(s) >= 2

\* s[1 : len(s)-1]: s without its first and its last byte.
Slice(s) == SubSeq(s, 2, Len(s) - 1)

RECURSIVE Flatten(_)
Flatten(ss) == IF ss = <<>> THEN <<>> ELSE Head(ss) \o Flatten(Tail(ss))

----------------------------------------------------------------------------
(* Data *)

\* github_api + user_repos_uri and github_api + starred_uri: the two listings.
Cats == {1, 2}

\* The subdirectory of the root each listing is mirrored into (main).
CatDir(c) == IF c = 1 THEN "users" ELSE "starred"

\* Repo: the records a listing page can carry.
Repos ==
    { [FullName |-> <<"alice", "proj1">>, SSHUrl |-> "git@host:alice/proj1.git"],
      [FullName |-> <<"bob", "lib">>,     SSHUrl |-> "git@host:bob/lib.git"] }

\* Sequences over S of length at most n.
SeqsUpTo(S, n) == UNION { [1..k -> S] : k \in 0..n }

\* Paths: absolute or relative to the working directory.
Path(abs, segs) == [abs |-> abs, segs |-> segs]

\* What the operating system makes of path p in working directory d.
Resolve(d, p) == IF p.abs THEN p.segs ELSE d \o p.segs

\* fmt.Sprintf("%v/%v", p, more)
Join(p, more) == Path(p.abs, p.segs \o more)

\* The directory p and every directory above it.
Prefixes(p) == { SubSeq(p, 1, k) : k \in 0..Len(p) }

\* The directory the process is started in.
StartDir == <<"home">>

----------------------------------------------------------------------------
(* The remote listing service *)

\* The orders in which the service lists the relations of a Link header.
LinkOrders ==
    { <<"next", "last", "first", "prev">>, <<"prev", "next", "last", "first">> }

\* Page i carries relation r: next and last when another page follows (more),
\* prev and first when a page precedes.
Applicable(r, i, more) == IF r \in {"next", "last"} THEN more ELSE i > 1

\* The page the entry of relation r on page i points to.
RelUrl(r, i) ==
    CASE r = "next" -> i + 1
      [] r = "prev" -> i - 1
      [] r = "first" -> 1
      [] OTHER -> MaxPages

\* One entry of a Link header: <url>; rel=relation
Entry(u, r) == <<Tok("<"), Url(u), Tok(">"), Tok(";"), Tok(" "), Tok("rel="), Tok(r)>>

\* The Link header of page i: its entries in the given order, joined by ", ";
\* the empty string (no header) when the page carries no relation.
RECURSIVE LinkHeader(_, _, _)
LinkHeader(order, i, more) ==
    IF order = <<>> THEN <<>>
    ELSE LET rest == LinkHeader(Tail(order), i, more)
         IN IF ~Applicable(Head(order), i, more) THEN rest
            ELSE IF rest = <<>> THEN Entry(RelUrl(Head(order), i), Head(order))
            ELSE Entry(RelUrl(Head(order), i), Head(order)) \o <<Tok(","), Tok(" ")>> \o rest

\* A response body: a JSON list of at most n repositories, or something
\* parseRepo rejects.
Bodies(n) ==
    { [ok |-> TRUE, repos |-> b] : b \in SeqsUpTo(Repos, n) }
        \cup { [ok |-> FALSE, repos |-> <<>>] }

NoBody == [ok |-> TRUE, repos |-> <<>>]

\* No response in flight.
NoRsp == [err |-> FALSE, status |-> 0, more |-> FALSE, link |-> <<>>, body |-> NoBody]

\* What client.Do can return for a GET of url when the service has handed out
\* n records of the listing: a transport error, a status other than 200, or
\* page url[1].u of the listing with status 200.
Responses(url, n) ==
    { [err |-> TRUE, status |-> 0, more |-> FALSE, link |-> <<>>, body |-> NoBody] }
    \cup { [err |-> FALSE, status |-> st, more |-> FALSE, link |-> <<>>, body |-> NoBody] :
             st \in {202, 404} }
    \cup IF Len(url) = 1 /\ url[1].c = "url" /\ url[1].u \in 1..MaxPages
         THEN { [err |-> FALSE, status |-> 200, more |-> m,
                 link |-> LinkHeader(o, url[1].u, m), body |-> b] :
                   o \in LinkOrders,
                   m \in (IF url[1].u < MaxPages THEN BOOLEAN ELSE {FALSE}),
                   b \in Bodies(MaxRecords - n) }
         ELSE {}

\* A response is a well-formed page: status 200 and a body that parses.
WellFormed(r) == ~r.err /\ r.status = 200 /\ r.body.ok

\* What is wrong with response r, "none" for a well-formed page.
Fault(r) ==
    IF r.err THEN "transport"
    ELSE IF r.status \notin 200..299 THEN "non2xx"
    ELSE IF r.status # 200 THEN "not200"
    ELSE IF ~r.body.ok THEN "body"
    ELSE "none"

----------------------------------------------------------------------------
(* fetchApiContent *)

\* A check that lets client errors through.
FatalStatusServerOnly(st) == st >= 500

\* rsp.StatusCode != 200
FatalStatus(st) == st # 200

\* strings.Split(strings.Split(rsp.Header.Get("Link"), ",")[0], ";")
LinkOf(header) == Split(Split(header, Tok(","))[1], Tok(";"))

\* api = link[0][1 : len(link[0])-1]
NextApi(link) == Slice(link[1])

\* strings.Contains(link[1], "next")
HasNext(link) == ContainsNext(link[2])

----------------------------------------------------------------------------
(* doExec: classification of one attempt *)

\* i < 20
MaxAttempts == 20

\* What cmd.Run() can report: success, an exit status (1 or 2), death by a
\* signal, or a failure to spawn; dmca: the captured stderr holds the marker.
Outcomes ==
    { [kind |-> "ok", code |-> 0, dmca |-> FALSE],
      [kind |-> "spawn", code |-> 0, dmca |-> FALSE] }
    \cup { [kind |-> "exit", code |-> c, dmca |-> d] : c \in {1, 2}, d \in BOOLEAN }
    \cup { [kind |-> "signal", code |-> 0, dmca |-> FALSE] }

NoOut == [kind |-> "none", code |-> 0, dmca |-> FALSE]

\* err != nil
Failed(out) == out.kind # "ok"

\* A classification that never looks at the captured stderr.
TakenDownNever(out) == FALSE

\* strings.Contains(stderr.String(), "DMCA takedown")
TakenDown(out) == out.dmca

\* status.ExitStatus(): the exit code, -1 for a process that did not exit.
ExitStatus(out) == IF out.kind = "exit" THEN out.code ELSE -1

\* A classification that retries exit status 1 like every other failure.
BenignExitNever(out) == FALSE

\* err is an *exec.ExitError whose wait status has ExitStatus() == 1
BenignExit(out) == out.kind \in {"exit", "signal"} /\ ExitStatus(out) = 1

\* The attempt is followed by a pause and another iteration of the loop.
Retry(out) == Failed(out) /\ ~TakenDown(out) /\ ~BenignExit(out)

----------------------------------------------------------------------------
(* State *)

\* The configurations main can load.
Configs ==
    { [file |-> f, User |-> "", Token |-> "", RepoRootDir |-> Path(TRUE, <<"mirror">>)] :
        f \in {"unreadable", "badjson"} }
    \cup { [file |-> "ok", User |-> u, Token |-> t, RepoRootDir |-> Path(a, <<"mirror">>)] :
             u \in {"", "alice"}, t \in {"", "t"}, a \in BOOLEAN }

\* fmt.Sprintf("%v/users", cfg.RepoRootDir), fmt.Sprintf("%v/starred", cfg.RepoRootDir)
RootDir(c) == Join(cfg.RepoRootDir, <<CatDir(c)>>)

\* localDir := fmt.Sprintf("%v/%v", rootDir, repo.FullName)
LocalDir(c, repo) == Join(RootDir(c), repo.FullName)

\* The repositories earlier runs may have mirrored, under either listing.
Mirrored == { r \in Repos : r.FullName = <<"alice", "proj1">> }

\* The local directory of repo under listing c, as a run that starts in
\* StartDir and enters the root finds it.
LeftDir(root, c, repo) ==
    Resolve(Resolve(StartDir, root), Join(Join(root, <<CatDir(c)>>), repo.FullName))

\* The directories earlier runs may have left: none (the root is missing), or
\* the root with the local directories of the repositories mirrored before,
\* in both listings.
InitialDirs(root) ==
    { Prefixes(StartDir),
      Prefixes(Resolve(StartDir, root))
        \cup UNION { Prefixes(LeftDir(root, x[1], x[2])) : x \in Cats \X Mirrored } }

\* The working copies among the directories ds: earlier runs cloned into every
\* local directory they left.
InitialCopies(root, ds) ==
    { d \in ds : \E x \in Cats \X Mirrored : d = LeftDir(root, x[1], x[2]) }

NoCur == [on |-> FALSE, repo |-> CHOOSE r \in Repos : TRUE, dir |-> <<>>,
          existed |-> FALSE, made |-> FALSE, cmds |-> <<>>]

\* No record reconciled just before.
NoPrev == [on |-> FALSE, repo |-> CHOOSE r \in Repos : TRUE, dir |-> <<>>]

NoRun == [on |-> FALSE, kind |-> "none", dir |-> <<>>, attempts |-> 0,
          pauses |-> 0, last |-> NoOut]

NoServed == [recs |-> <<>>, more |-> FALSE, fault |-> "none"]

NoHist == [requested |-> {}, touched |-> {}, complete |-> {}, cloned |-> {},
           created |-> {}, prev |-> NoPrev, runs |-> 1]

Init ==
    /\ pc = "start"
    /\ exit = "none"
    /\ cfg \in Configs
    /\ dirs \in InitialDirs(cfg.RepoRootDir)
    /\ wc = InitialCopies(cfg.RepoRootDir, dirs)
    /\ cwd = StartDir
    /\ cat = 0
    /\ api = <<>>
    /\ reps = <<>>
    /\ rsp = NoRsp
    /\ requests = 0
    /\ sleeps = 0
    /\ served = NoServed
    /\ todo = <<>>
    /\ cur = NoCur
    /\ run = NoRun
    /\ hist = NoHist

\* The process ends: how is recorded in exit, everything else stays as it was.
Exit(how) ==
    /\ pc' = "exited"
    /\ exit' = how

\* The termination status of a process that ended in the way how: 0 when main
\* returns, 1 from os.Exit(1) in lg.Fatal and lg.Fatalf, 2 from the Go runtime
\* after a panic, and a status other than 0 when a signal killed the process.
ProcessStatus(how) ==
    CASE how = "return"   -> 0
      [] how = "finished" -> 0
      [] how = "fatal"    -> 1
      [] how = "panic"    -> 2
      [] OTHER            -> 128

----------------------------------------------------------------------------
(* main *)

CredentialsMissingBoth(c) == c.User = "" /\ c.Token = ""

\* main: cfg.User == "" || cfg.Token == "".
CredentialsMissing(c) == c.User = "" \/ c.Token = ""

\* main, up to the start message: open and parse the configuration file and
\* check the credentials; every failure prints a message and returns.
LoadConfig ==
    /\ pc = "start"
    /\ IF cfg.file # "ok" \/ CredentialsMissing(cfg)
       THEN Exit("return")
       ELSE pc' = "root" /\ exit' = exit
    /\ UNCHANGED <<cfg, dirs, wc, cwd, cat, api, reps, rsp, requests, sleeps,
                   served, todo, cur, run, hist>>

\* main: create the root directory when os.Stat reports it missing; lg.Fatal
\* when os.MkdirAll fails.
EnsureRoot ==
    /\ pc = "root"
    /\ LET r == Resolve(cwd, cfg.RepoRootDir)
       IN IF r \in dirs
          THEN pc' = "chdir" /\ UNCHANGED <<exit, dirs, hist>>
          ELSE \E ok \in BOOLEAN :
                 IF ok
                 THEN /\ dirs' = dirs \cup Prefixes(r)
                      /\ hist' = [hist EXCEPT !.created = @ \cup {r}]
                      /\ pc' = "chdir"
                      /\ exit' = exit
                 ELSE Exit("fatal") /\ UNCHANGED <<dirs, hist>>
    /\ UNCHANGED <<cfg, wc, cwd, cat, api, reps, rsp, requests, sleeps, served,
                   todo, cur, run>>

\* A main that calls syncRepos for the starred listing first.
FirstCatStarred == 1 + 1

\* The listing main mirrors first.
FirstCat == 1

\* main: os.Chdir(cfg.RepoRootDir), then the first call of syncRepos.
ChdirRoot ==
    /\ pc = "chdir"
    /\ cwd' = Resolve(cwd, cfg.RepoRootDir)
    /\ cat' = FirstCat
    /\ pc' = "sync"
    /\ UNCHANGED <<exit, cfg, dirs, wc, api, reps, rsp, requests, sleeps, served,
                   todo, cur, run, hist>>

----------------------------------------------------------------------------
(* fetchApiContent *)

\* syncRepos calls fetchApiContent: api = github_api + uri, reps = make([]Repo, 0).
StartFetch ==
    /\ pc = "sync"
    /\ api' = <<Url(1)>>
    /\ reps' = <<>>
    /\ requests' = 0
    /\ sleeps' = 0
    /\ served' = NoServed
    /\ hist' = [hist EXCEPT !.cloned = {}, !.prev = NoPrev]
    /\ pc' = "request"
    /\ UNCHANGED <<exit, cfg, dirs, wc, cwd, cat, rsp, todo, cur, run>>

\* One GET of the loop: client.Do(req) returns what the service answers.
Request ==
    /\ pc = "request"
    /\ \E r \in Responses(api, Len(served.recs)) :
         /\ rsp' = r
         /\ served' = [recs |-> IF WellFormed(r) THEN served.recs \o r.body.repos
                                ELSE served.recs,
                       more |-> r.more,
                       fault |-> Fault(r)]
    /\ requests' = requests + 1
    /\ hist' = [hist EXCEPT !.requested = @ \cup {cat}]
    /\ pc' = "response"
    /\ UNCHANGED <<exit, cfg, dirs, wc, cwd, cat, api, reps, sleeps, todo, cur, run>>

\* The rest of the loop body: the error and status checks, the Link header,
\* the body, the test for a next page and the courtesy sleep.
Response ==
    /\ pc = "response"
    /\ rsp' = NoRsp
    /\ IF rsp.err \/ FatalStatus(rsp.status)
       THEN Exit("fatal") /\ UNCHANGED <<api, reps, sleeps>>
       ELSE LET link == LinkOf(rsp.link)
            IN IF ~SliceOK(link[1])
               THEN Exit("panic") /\ UNCHANGED <<api, reps, sleeps>>
               ELSE /\ api' = NextApi(link)
                    /\ IF ~rsp.body.ok
                       THEN Exit("panic") /\ UNCHANGED <<reps, sleeps>>
                       ELSE /\ reps' = reps \o rsp.body.repos
                            /\ IF Len(link) < 2
                               THEN Exit("panic") /\ sleeps' = sleeps
                               ELSE IF ~HasNext(link)
                               THEN pc' = "fetched" /\ UNCHANGED <<exit, sleeps>>
                               ELSE /\ sleeps' = sleeps + 1
                                    /\ pc' = "request"
                                    /\ exit' = exit
    /\ UNCHANGED <<cfg, dirs, wc, cwd, cat, requests, served, todo, cur, run, hist>>

----------------------------------------------------------------------------
(* syncRepos and doExec *)

NextCatAround(c) == IF c = 1 THEN 2 ELSE 1

\* The listing main mirrors after listing c, 0 when c was the last.
NextCat(c) == IF c = 1 THEN 2 ELSE 0

\* A call of doExec begins: nothing spawned yet. d is the working directory
\* the command will run in.
NewRun(kind, d) ==
    [on |-> TRUE, kind |-> kind, dir |-> d, attempts |-> 0, pauses |-> 0,
     last |-> NoOut]

\* fetchApiContent has returned: repos := reps, and the range loop begins.
BeginRange ==
    /\ pc = "fetched"
    /\ todo' = reps
    /\ api' = <<>>
    /\ reps' = <<>>
    /\ requests' = 0
    /\ sleeps' = 0
    /\ served' = NoServed
    /\ pc' = "range"
    /\ UNCHANGED <<exit, cfg, dirs, wc, cwd, cat, rsp, cur, run, hist>>

\* The update commands in the wrong order.
UpdateCmdsPullFirst == <<"pull", "reset">>

\* The commands syncRepos runs for a record whose directory os.Stat finds.
UpdateCmds == <<"reset", "pull">>

\* A syncRepos that goes on to the update commands after a clone as well.
MoreCmdsAfterClone(c) == Len(c.cmds) < Len(UpdateCmds)

\* syncRepos has another command to run for record c: the else branch runs
\* the update commands one after the other, the then branch only the clone.
MoreCmds(c) == c.existed /\ Len(c.cmds) < Len(UpdateCmds)

\* A loop condition that is off by one.
LoopAgainOffByOne(i) == i <= MaxAttempts

\* The loop condition of doExec when i attempts have been made: i < 20.
LoopAgain(i) == i < MaxAttempts

\* The range loop reaches a record whose local directory os.Stat does not
\* find: os.MkdirAll (lg.Fatalf when it fails), then doExec("git", "clone", ...).
ReconcileAbsent ==
    /\ pc = "range"
    /\ todo # <<>>
    /\ LET repo == Head(todo)
           d == Resolve(cwd, LocalDir(cat, repo))
       IN /\ d \notin dirs
          /\ \E ok \in BOOLEAN :
               IF ok
               THEN /\ dirs' = dirs \cup Prefixes(d)
                    /\ cur' = [on |-> TRUE, repo |-> repo, dir |-> d,
                               existed |-> FALSE, made |-> TRUE,
                               cmds |-> <<"clone">>]
                    /\ run' = NewRun("clone", cwd)
                    /\ hist' = [hist EXCEPT !.touched = @ \cup {cat},
                                            !.cloned = @ \cup {d},
                                            !.created = @ \cup {d}]
                    /\ pc' = "exec"
                    /\ exit' = exit
               ELSE /\ Exit("fatal")
                    /\ cur' = [on |-> TRUE, repo |-> repo, dir |-> d,
                               existed |-> FALSE, made |-> FALSE, cmds |-> <<>>]
                    /\ UNCHANGED <<dirs, run, hist>>
    /\ todo' = Tail(todo)
    /\ UNCHANGED <<cfg, wc, cwd, cat, api, reps, rsp, requests, sleeps, served>>

\* The range loop reaches a record whose local directory exists:
\* os.Chdir(localDir), its error ignored, then doExec("git", "reset", "--hard").
ReconcilePresent ==
    /\ pc = "range"
    /\ todo # <<>>
    /\ LET repo == Head(todo)
           d == Resolve(cwd, LocalDir(cat, repo))
       IN /\ d \in dirs
          /\ \E ok \in BOOLEAN :
               /\ cwd' = IF ok THEN d ELSE cwd
               /\ run' = NewRun(Head(UpdateCmds), cwd')
          /\ cur' = [on |-> TRUE, repo |-> repo, dir |-> d, existed |-> TRUE,
                     made |-> FALSE, cmds |-> <<Head(UpdateCmds)>>]
    /\ hist' = [hist EXCEPT !.touched = @ \cup {cat}]
    /\ todo' = Tail(todo)
    /\ pc' = "exec"
    /\ UNCHANGED <<exit, cfg, dirs, wc, cat, api, reps, rsp, requests, sleeps,
                   served>>

\* git can carry out command r when the working copies are w: a clone into
\* the directory just made, a reset or a pull in a directory that is, or lies
\* inside, a working copy.
CanSucceed(r, w) == r.kind = "clone" \/ \E d \in Prefixes(r.dir) : d \in w

\* What cmd.Run() can report for command r: outside a working copy git fails
\* before it reaches the remote, with an exit status above 1, and the process
\* may still be killed by a signal or fail to spawn.
Possible(r, w) ==
    IF CanSucceed(r, w) THEN Outcomes
    ELSE { o \in Outcomes : Failed(o) /\ ~o.dmca /\ ExitStatus(o) # 1 }

\* doExec: one iteration of the loop. The command is spawned and cmd.Run()
\* reports its outcome; a failure that is neither a takedown nor exit status 1
\* is followed by a pause of 200 ms and, while i < 20, by another iteration.
\* A clone that succeeds leaves a working copy in the record's directory.
Attempt ==
    /\ pc = "exec"
    /\ \E out \in Possible(run, wc) :
         /\ run' = [run EXCEPT !.attempts = @ + 1,
                               !.pauses = IF Retry(out) THEN @ + 1 ELSE @,
                               !.last = out]
         /\ pc' = IF Retry(out) /\ LoopAgain(run.attempts + 1)
                  THEN "exec" ELSE "execRet"
         /\ wc' = IF run.kind = "clone" /\ ~Failed(out) THEN wc \cup {cur.dir}
                  ELSE wc
    /\ UNCHANGED <<exit, cfg, dirs, cwd, cat, api, reps, rsp, requests, sleeps,
                   served, todo, cur, hist>>

AfterExecEscalating ==
    /\ pc = "execRet"
    /\ Failed(run.last)
    /\ Exit("fatal")
    /\ UNCHANGED <<cfg, dirs, wc, cwd, cat, api, reps, rsp, requests, sleeps,
                   served, todo, cur, run, hist>>

\* doExec has returned to syncRepos: after the reset comes the pull, after a
\* clone or a pull the next record. hist.prev remembers the record when it was
\* an update of a directory that holds a working copy.
AfterExec ==
    /\ pc = "execRet"
    /\ IF MoreCmds(cur)
       THEN /\ run' = NewRun(UpdateCmds[Len(cur.cmds) + 1], cwd)
            /\ cur' = [cur EXCEPT !.cmds = Append(@, UpdateCmds[Len(cur.cmds) + 1])]
            /\ pc' = "exec"
            /\ hist' = hist
       ELSE /\ run' = NoRun
            /\ cur' = NoCur
            /\ hist' = [hist EXCEPT !.prev =
                            IF cur.existed /\ cur.dir \in wc
                            THEN [on |-> TRUE, repo |-> cur.repo, dir |-> cur.dir]
                            ELSE NoPrev]
            /\ pc' = "range"
    /\ UNCHANGED <<exit, cfg, dirs, wc, cwd, cat, api, reps, rsp, requests,
                   sleeps, served, todo>>

\* The range loop is over and syncRepos returns to main: the second call of
\* syncRepos, or lg.Println("finished") and the end of main.
SyncReturn ==
    /\ pc = "range"
    /\ todo = <<>>
    /\ hist' = [hist EXCEPT !.complete = @ \cup {cat}]
    /\ IF NextCat(cat) # 0
       THEN /\ cat' = NextCat(cat)
            /\ pc' = "sync"
            /\ exit' = exit
       ELSE /\ Exit("finished")
            /\ cat' = cat
    /\ UNCHANGED <<cfg, dirs, wc, cwd, api, reps, rsp, requests, sleeps, served,
                   todo, cur, run>>

----------------------------------------------------------------------------

Next ==
    \/ LoadConfig
    \/ EnsureRoot
    \/ ChdirRoot
    \/ StartFetch
    \/ Request
    \/ Response
    \/ BeginRange
    \/ ReconcileAbsent
    \/ ReconcilePresent
    \/ Attempt
    \/ AfterExec
    \/ SyncReturn

Spec == Init /\ [][Next]_vars

----------------------------------------------------------------------------
(* Runs that are ended from outside and started again *)

\* A signal ends the process wherever it is; nothing of the process is left
\* but the files it wrote.
Kill ==
    /\ pc # "exited"
    /\ Exit("killed")
    /\ cwd' = StartDir
    /\ cat' = 0
    /\ api' = <<>>
    /\ reps' = <<>>
    /\ rsp' = NoRsp
    /\ requests' = 0
    /\ sleeps' = 0
    /\ served' = NoServed
    /\ todo' = <<>>
    /\ cur' = NoCur
    /\ run' = NoRun
    /\ hist' = [NoHist EXCEPT !.runs = hist.runs]
    /\ UNCHANGED <<cfg, dirs, wc>>

\* The program is started again (the scheduled job of the README) with the
\* same configuration file: the new process finds the filesystem the earlier
\* runs left and nothing else of them.
Restart ==
    /\ pc = "exited"
    /\ hist.runs < MaxRuns
    /\ pc' = "start"
    /\ exit' = "none"
    /\ cwd' = StartDir
    /\ cat' = 0
    /\ api' = <<>>
    /\ reps' = <<>>
    /\ rsp' = NoRsp
    /\ requests' = 0
    /\ sleeps' = 0
    /\ served' = NoServed
    /\ todo' = <<>>
    /\ cur' = NoCur
    /\ run' = NoRun
    /\ hist' = [NoHist EXCEPT !.runs = hist.runs + 1]
    /\ UNCHANGED <<cfg, dirs, wc>>

RestartNext ==
    \/ Next
    \/ Kill
    \/ Restart

\* The first run starts with a usable configuration whose root is an
\* absolute path, on a machine where nothing is mirrored yet.
RestartInit ==
    /\ Init
    /\ cfg.file = "ok"
    /\ ~CredentialsMissing(cfg)
    /\ cfg.RepoRootDir.abs
    /\ dirs = Prefixes(StartDir)

RestartSpec == RestartInit /\ [][RestartNext]_vars

----------------------------------------------------------------------------
(* The paginated fetcher *)

\* The call of fetchApiContent has ended: it returned, or the process ended
\* inside it.
FetchEnded == pc = "fetched" \/ (pc = "exited" /\ requests > 0)

\* The last response received has been dealt with.
Handled == requests > 0 /\ pc # "response"

\* C1: for every listing of N pages, each page but the last carrying a next
\* link and every response a well-formed 200, fetchApiContent returns the
\* records of all N pages in page order and in-page order, after N requests
\* and N-1 courtesy sleeps.
C1_AllPagesFetched ==
    (FetchEnded /\ served.fault = "none") =>
        /\ pc = "fetched"
        /\ ~served.more
        /\ reps = served.recs
        /\ sleeps = requests - 1

\* C2: a well-formed response that carries no next relation (in particular one
\* without a Link header, or an empty first page) ends the walk normally after
\* that request, and the records accumulated so far are returned.
C2_NoNextEndsWalk ==
    (Handled /\ served.fault = "none" /\ ~served.more) =>
        /\ pc = "fetched"
        /\ exit = "none"
        /\ reps = served.recs

\* C3: a well-formed response whose Link header has an entry with the next
\* relation, at whatever position, makes the fetcher continue with the URL of
\* that entry; the walk stops exactly when no entry carries the relation.
C3_FollowsNextEntry ==
    (Handled /\ served.fault = "none") =>
        IF served.more
        THEN pc = "request" /\ api = <<Url(requests + 1)>>
        ELSE pc \in {"fetched", "exited"}

\* C4: a transport error or a status outside 200..299, on the first or on a
\* later page, ends the process fatally, and nothing is done for the records
\* of that listing: no directory, no clone, no reset, no pull.
C4_FetchErrorIsFatal ==
    (Handled /\ served.fault \in {"transport", "non2xx"}) =>
        /\ pc = "exited"
        /\ exit = "fatal"
        /\ cat \notin hist.touched
        /\ todo = <<>>
        /\ ~cur.on
        /\ ~run.on

\* C4 witness: the second or a later request fails after records were fetched.
C4_Witness ==
    /\ exit = "fatal"
    /\ served.fault = "non2xx"
    /\ requests >= 2
    /\ Len(reps) >= 1
    /\ cat \notin hist.touched

----------------------------------------------------------------------------
(* The reconciler *)

\* C5 as stated: a record whose local directory is missing when it is reached
\* gets the directory and exactly one clone command, and in the same pass over
\* the listing no reset or pull is issued for that repository.
C5_CloneOnlyInPass ==
    /\ (cur.on /\ ~cur.existed /\ exit = "none") =>
            /\ cur.made
            /\ cur.dir \in dirs
            /\ cur.cmds = <<"clone">>
            /\ run.kind = "clone"
    /\ (cur.on /\ cur.existed) => cur.dir \notin hist.cloned

\* C5 amended: a record whose local directory is missing when it is reached
\* gets the directory (a failure to create it is fatal, and then no command is
\* issued) and then exactly one clone command, and no reset or pull is issued
\* for that record; only a record whose directory exists is reset and pulled,
\* which includes a later record of the same listing that names a repository
\* cloned earlier in the pass.
C5_CloneOnlyForRecord ==
    /\ (cur.on /\ ~cur.existed) =>
            IF exit = "none"
            THEN /\ cur.made
                 /\ cur.dir \in dirs
                 /\ cur.dir \in hist.cloned
                 /\ cur.cmds = <<"clone">>
                 /\ run.kind = "clone"
            ELSE /\ exit = "fatal"
                 /\ ~cur.made
                 /\ cur.dir \notin dirs
                 /\ cur.cmds = <<>>
                 /\ ~run.on
    /\ (run.on /\ run.kind \in {"reset", "pull"}) => (cur.on /\ cur.existed)

\* C5 witness: the clone of a missing repository has been retried and doExec
\* has returned.
C5_Witness ==
    /\ pc = "execRet"
    /\ cur.on /\ ~cur.existed /\ cur.made
    /\ cur.cmds = <<"clone">>
    /\ run.attempts > 1

\* C6: a record whose local directory exists when it is reached gets the reset
\* and then the pull, in that order, and no clone and no directory creation.
C6_ResetThenPull ==
    [][ /\ (cur'.on /\ cur'.existed) =>
              /\ ~cur'.made
              /\ dirs' = dirs
              /\ cur'.cmds \in {<<"reset">>, <<"reset", "pull">>}
              /\ run'.on
              /\ run'.kind = cur'.cmds[Len(cur'.cmds)]
        /\ (cur.on /\ cur.existed /\ ~cur'.on) => cur.cmds = <<"reset", "pull">>
      ]_vars

\* C6 witness: reset and pull have both been issued for an existing directory.
C6_Witness ==
    /\ pc = "execRet"
    /\ cur.on /\ cur.existed
    /\ cur.cmds = <<"reset", "pull">>
    /\ cur.dir \in dirs

----------------------------------------------------------------------------
(* The command runner *)

\* The outcome is a failure with the takedown marker in the captured stderr.
MarkedFailure(out) == out.kind \in {"exit", "signal", "spawn"} /\ out.dmca

\* The outcome is exit status 1.
ExitOne(out) == out.kind = "exit" /\ out.code = 1

\* The outcome is a transient failure: an exit code other than 0 and 1, a
\* signal or a spawn error, with no takedown marker on stderr.
Transient(out) ==
    /\ out.kind \in {"exit", "signal", "spawn"}
    /\ ~ExitOne(out)
    /\ ~out.dmca

\* C7: while no attempt is classified permanent, doExec spawns attempts until
\* the first success and at most 20: every attempt before the last is a
\* transient failure, a call whose attempts all fail with a transient outcome
\* returns after exactly 20, and a success is the last attempt of its call.
C7_AttemptsBounded ==
    /\ pc = "exec" => /\ run.attempts < 20
                      /\ run.attempts > 0 => Transient(run.last)
    /\ pc = "execRet" => /\ run.attempts \in 1..20
                         /\ Transient(run.last) => run.attempts = 20

\* C7 witness: a call has returned after 20 transient failures.
C7_Witness ==
    /\ pc = "execRet"
    /\ run.attempts = 20
    /\ Transient(run.last)

C9_ExitOneStops ==
    [][ /\ (run'.on /\ ExitOne(run'.last)) =>
              /\ pc' = "execRet"
              /\ exit' = "none"
              /\ run'.pauses = run'.attempts - 1
        /\ (pc = "execRet" /\ ExitOne(run.last)) =>
              /\ exit' = "none"
              /\ IF cur.cmds = <<"reset">>
                 THEN /\ pc' = "exec"
                      /\ run'.kind = "pull"
                      /\ run'.attempts = 0
                      /\ cur'.cmds = <<"reset", "pull">>
                 ELSE /\ pc' = "range"
                      /\ ~cur'.on
                      /\ ~run'.on
                      /\ todo' = todo
      ]_vars

\* C9 witness: the first attempt of a reset ends with exit status 1.
C9_Witness ==
    /\ pc = "execRet"
    /\ run.kind = "reset"
    /\ run.attempts = 1
    /\ run.last = [kind |-> "exit", code |-> 1, dmca |-> FALSE]

----------------------------------------------------------------------------
(* The orchestrator *)

\* A directory below the root of the starred listing.
UnderStarred(d) == \E k \in 1..Len(d) : d[k] = CatDir(2)

\* C10: the owned listing is fetched and reconciled completely before the
\* first request for the starred listing, and when the process ends abnormally
\* while it works on the owned listing, nothing has been requested, created or
\* run for the starred listing.
C10_OwnedBeforeStarred ==
    /\ (2 \in hist.requested \/ 2 \in hist.touched \/ cat = 2) =>
            /\ 1 \in hist.complete
            /\ 1 \in hist.requested
    /\ (exit \in {"fatal", "panic"} /\ cat # 2) =>
            /\ 2 \notin hist.requested
            /\ 2 \notin hist.touched
            /\ \A d \in hist.created : ~UnderStarred(d)

\* C10 witness: the process ends fatally while it reconciles the owned listing.
C10_Witness ==
    /\ exit = "fatal"
    /\ cat = 1
    /\ 1 \in hist.touched
    /\ cur.on

----------------------------------------------------------------------------
(* Configuration without credentials *)

\* The configuration file was read and parsed and lacks the user or the token.
NoCredentials == cfg.file = "ok" /\ (cfg.User = "" \/ cfg.Token = "")

\* C11: when the loaded configuration has an empty user or an empty token the
\* run aborts with no partial run: main returns at the credentials check, no
\* request is sent, no directory is created (not even the root), the working
\* directory is not changed and no command is spawned.
C11_NoPartialRun ==
    NoCredentials =>
        /\ pc = "start" \/ (pc = "exited" /\ exit = "return")
        /\ requests = 0
        /\ hist.requested = {}
        /\ hist.created = {}
        /\ dirs \in InitialDirs(cfg.RepoRootDir)
        /\ wc = InitialCopies(cfg.RepoRootDir, dirs)
        /\ cwd = StartDir
        /\ hist.touched = {}
        /\ ~cur.on
        /\ ~run.on

\* A run that ended at the credentials check with a user but no token.
C11_Witness ==
    /\ pc = "exited"
    /\ cfg.file = "ok"
    /\ cfg.User # ""
    /\ cfg.Token = ""

----------------------------------------------------------------------------
(* Failing commands and the rest of the batch *)

\* The process ended for a reason that is not a command: the configuration,
\* the creation of the root, a listing fetch, or the creation of a record's
\* directory.
ConfigAbort == pc = "exited" /\ exit = "return"
RootFailed  == pc = "exited" /\ exit = "fatal" /\ cat = 0
FetchFailed == pc = "exited" /\ exit \in {"fatal", "panic"} /\ requests > 0
MkdirFailed == pc = "exited" /\ exit = "fatal" /\ cur.on /\ ~cur.made /\ cur.cmds = <<>>

\* One step of the range loop and of doExec, as the claim describes it: a
\* command that ended, however it ended, never ends the process; the range
\* loop starts from the fetched listing, takes the records from its head, and
\* issues for each a clone or a reset; a record is left only after its clone
\* or after its reset and pull.
BatchStep ==
    /\ pc \in {"exec", "execRet"} =>
           exit' = "none" /\ pc' \in {"exec", "execRet", "range"}
    /\ pc = "fetched" => todo' = reps
    /\ (pc = "range" /\ todo # <<>> /\ pc' # "exited") =>
           /\ cur'.on
           /\ cur'.repo = Head(todo)
           /\ todo' = Tail(todo)
           /\ run'.on
           /\ run'.kind \in {"clone", "reset"}
    /\ (pc = "execRet" /\ pc' = "range") =>
           cur.cmds \in {<<"clone">>, <<"reset", "pull">>}

\* The process is in the range loop of syncRepos or in a call of doExec.
InBatch == pc \in {"range", "exec", "execRet"}

\* How many steps a run can still take, at most: every step of the program
\* lowers it. A call of doExec is worth the attempts it has left, a record
\* the commands it has left, a listing the records it has left, a fetch the
\* pages it has left, a run the listings it has left.
CmdRank ==
    CASE pc = "exec"    -> (MaxAttempts - run.attempts) + 2
      [] pc = "execRet" -> 1
      [] OTHER          -> 0
CmdWeight == MaxAttempts + 3
RecordRank == (IF cur.on /\ MoreCmds(cur) THEN CmdWeight ELSE 0) + CmdRank
RecordWeight == CmdWeight + CmdWeight
FetchedRank == MaxRecords * RecordWeight + 1
PassWeight == FetchedRank + MaxPages + MaxPages + 4
PassRank ==
    CASE pc = "sync"     -> PassWeight - 1
      [] pc = "request"  -> FetchedRank + (MaxPages - requests) + (MaxPages - requests) + 2
      [] pc = "response" -> FetchedRank + (MaxPages - requests) + (MaxPages - requests) + 3
      [] pc = "fetched"  -> FetchedRank
      [] OTHER           -> Len(todo) * RecordWeight + RecordRank
Rank ==
    CASE pc = "exited" -> 0
      [] pc = "chdir"  -> Cardinality(Cats) * PassWeight + 2
      [] pc = "root"   -> Cardinality(Cats) * PassWeight + 3
      [] pc = "start"  -> Cardinality(Cats) * PassWeight + 4
      [] OTHER         -> (Cardinality(Cats) - cat) * PassWeight + PassRank + 1

\* C12: a command failure is never escalated to the end of the process and
\* never blocks the rest of the batch: the records of a fetched listing are
\* reconciled in listing order whatever the earlier commands did; inside the
\* range loop the process can always take a step and every step brings the
\* end of the listing nearer; and the process ends with the completion report
\* unless the configuration, a fetch or a directory creation failed.
C12_FailureNeverBlocks ==
    /\ [][BatchStep /\ (InBatch => Rank' < Rank)]_vars
    /\ [](InBatch => Rank >= 0 /\ ENABLED Next)
    /\ [](pc = "exited" =>
            exit = "finished" \/ ConfigAbort \/ RootFailed \/ FetchFailed
            \/ MkdirFailed)

\* C12 witness: the run reported completion although the clone into a
\* directory it created never succeeded.
C12_Witness ==
    /\ exit = "finished"
    /\ \E d \in hist.created : d # Resolve(StartDir, cfg.RepoRootDir) /\ d \notin wc

----------------------------------------------------------------------------
(* Runs that are started again *)

\* The reconciliation of the current record has ended, and it was the update,
\* in its own directory, of a directory that an earlier run left.
LeftoverReconciled ==
    /\ hist.runs > 1
    /\ pc = "execRet"
    /\ ~MoreCmds(cur)
    /\ cur.existed
    /\ cur.dir \notin hist.created
    /\ run.dir = cur.dir

\* C13: a run that is ended at any point, also between the creation of a
\* record's directory and the success of its clone, and is then started again
\* converges to the end state of an uninterrupted run: when the new run has
\* reconciled a record whose directory the earlier run left, the directory
\* holds a working copy.
C13_RestartConverges == LeftoverReconciled => cur.dir \in wc

----------------------------------------------------------------------------
(* Reconciling a repository again *)

\* The current record is the repository that was reconciled just before it,
\* as an update of a directory that holds a working copy.
Again == cur.on /\ hist.prev.on /\ hist.prev.repo = cur.repo

\* C14: reconciling the same already cloned repository twice in succession is
\* idempotent: the second reconciliation finds the directory of the first,
\* creates no directory, issues no clone, issues only reset and then pull,
\* does not end the process, and leaves the directories as they were.
C14_SecondReconcileIdempotent ==
    Again =>
        /\ cur.existed
        /\ ~cur.made
        /\ cur.dir = hist.prev.dir
        /\ cur.dir \in wc
        /\ cur.dir \notin hist.created
        /\ cur.cmds \in {<<"reset">>, <<"reset", "pull">>}
        /\ exit = "none"

----------------------------------------------------------------------------
(* Directories and the working directory *)

\* The configured root, and the local directory localRoot/fullName of repo in
\* listing c, as the paths name them where the program is started.
Root == Resolve(StartDir, cfg.RepoRootDir)
OwnDir(c, repo) == Root \o <<CatDir(c)>> \o repo.FullName

\* The owned listing turned out to be one page with the one record alice/proj1.
OwnedIsProj1 ==
    /\ cat = 1
    /\ Handled
    /\ requests = 1
    /\ served.fault = "none"
    /\ ~served.more
    /\ Len(served.recs) = 1
    /\ served.recs[1].FullName = <<"alice", "proj1">>

\* C15: the directories the program creates are the configured root and the
\* directories localRoot/fullName of listed records, and no directory is ever
\* removed; in particular, when the owned listing is the single record
\* alice/proj1, the run goes on to that record (creating users/alice/proj1
\* under the root and cloning into it) and creates nothing under starred.
C15_CreatedDirs ==
    /\ [][dirs \subseteq dirs' /\ wc \subseteq wc']_vars
    /\ [](hist.created \subseteq
             {Root} \cup {OwnDir(c, r) : c \in Cats, r \in Repos})
    /\ [](OwnedIsProj1 =>
             /\ pc = "fetched"
             /\ reps = served.recs
             /\ \A d \in hist.created : ~UnderStarred(d))

\* C16: whenever a reset or a pull is spawned for a record, the working
\* directory of the process is that record's own local directory
\* localRoot/fullName, whatever was processed before, whether the root is
\* absolute or relative, and whether os.Chdir succeeded.
C16_UpdatesRunInOwnDir ==
    (run.on /\ run.kind \in {"reset", "pull"}) =>
        /\ cur.on
        /\ run.dir = cur.dir
        /\ cwd = cur.dir
        /\ cur.dir = OwnDir(cat, cur.repo)

\* C17: a pull is spawned only after the reset of the same record has
\* succeeded, however the attempts of the reset ended.
C17_PullOnlyAfterReset ==
    [][(pc = "execRet" /\ run'.on /\ run'.kind = "pull") =>
           (run.kind = "reset" /\ ~Failed(run.last))]_vars

----------------------------------------------------------------------------
(* Termination *)

\* C18: the process ends with status zero exactly when it reported completion:
\* every fatal condition (configuration unreadable or unparseable, credentials
\* missing, a directory that cannot be created, a failed listing request, a
\* malformed body) gives a status other than zero.
C18_StatusTellsFailure ==
    pc = "exited" => (ProcessStatus(exit) = 0 <=> exit = "finished")

\* C19: a response with a status in 200..299 other than 200 is accepted like
\* a 200: the process does not end and the walk goes on or ends according to
\* the next relation.
C19_Any2xxAccepted ==
    (Handled /\ served.fault = "not200") =>
        /\ exit = "none"
        /\ pc \in {"request", "fetched"}

\* The process can take a step. A response in hand is always dealt with:
\* Response has no condition but the position of the process.
CanStep == pc = "response" \/ ENABLED Next

\* C20: every run terminates: every step of the program lowers the number of
\* steps it can still take, and the program can take a step until the process
\* has ended; a command is spawned at most 20 times, and a record gets at most
\* one command when it is cloned and two when it is updated, so that at most
\* 40 attempts are spent on a record.
C20_Terminates ==
    /\ [][Rank' < Rank]_vars
    /\ [](Rank >= 0)
    /\ [](pc # "exited" => CanStep)
    /\ [](run.attempts <= MaxAttempts)
    /\ [](cur.on => Len(cur.cmds) <= (IF cur.existed THEN 2 ELSE 1))
    /\ [](requests <= MaxPages)

\* C20 witness: a record on which 40 attempts were spent: its pull has used
\* up its 20 attempts in a directory where git cannot work, as its reset did
\* before.
C20_Witness ==
    /\ pc = "execRet"
    /\ run.kind = "pull"
    /\ run.attempts = MaxAttempts
    /\ Retry(run.last)
    /\ ~CanSucceed(run, wc)

====
